---- MODULE Spec2Model ----
(***************************************************************************)
(* Session controller of the speech-coach widget (WidgetApp with backend   *)
(* sessions) and of the plain notes widget (components/VoiceNotes.js).      *)
(*                                                                         *)
(* React state is modelled as committed at once: a handler that is invoked *)
(* reads the current state, and an async handler keeps the values it read  *)
(* when it was invoked (its closure) across its awaits.  The handlers that *)
(* a recognition object or a media recorder carries keep the closure of    *)
(* the render in which startRecording created them.                        *)
(*                                                                         *)
(* Text is a sequence of one-character strings, so that concatenation,     *)
(* trim and prefix are computed and not assumed.                           *)
(***************************************************************************)
EXTENDS Integers, Sequences, FiniteSets, Bags, TLC

\* ---------------------------------------------------------------- bounds
MaxSessions == 2
MaxRecogs == 1
MaxTasks == 2
MaxStatsReqs == 1
MaxTextLen == 17
MaxStreams == 2

\* ------------------------------------------------------------- constants
Null == 0                          \* null of a session id or an object reference
NoUser == ""                       \* user === null
NoPw == "undefined"                \* storedUsers[email] of an unknown email
NoContext == "null"                \* audioContextRef.current === null
NoRecorder == [state |-> "none"]   \* mediaRecorderRef.current === null
NoAnalysis == [absent |-> TRUE]    \* speechAnalysis === null, no analysis field
NoStats == [absent |-> TRUE]       \* a failed request, or no success/live_stats

Metrics == {"fluency", "volume", "articulation", "clarity",
            "filler_words", "speaking_rate", "confidence"}

ZeroStats == [m \in Metrics |-> 0]

HelloWorld == <<"h", "e", "l", "l", "o", " ", "w", "o", "r", "l", "d">>
Hello == <<"h", "e", "l", "l", "o">>

\* one recognition event: the results from resultIndex on, each with its
\* transcript and its isFinal flag
Events == {<<[t |-> Hello, f |-> FALSE]>>, <<[t |-> HelloWorld, f |-> TRUE]>>}

\* live_stats payloads of the backend (a response may name any subset of the
\* metrics)
StatsPayloads == {[fluency |-> 70]}

Analyses == {[overall_score |-> 8]}

\* credentials typed into the auth form ("" is blank input); localStorage
\* holds the account of a returning user
Emails == {"", "a@x", "b@x"}
Passwords == {"", "p", "q"}
ReturningUser == "a@x"
ReturningPassword == "p"

\* ------------------------------------------------------------- variables
VARIABLES
  user, authMode, error, storedUsers,          \* auth state, localStorage
  isRecording, isProcessingAudio,
  transcript, finalTranscript,
  sessionId, liveStats, speechAnalysis,
  recognitionRef, audioContextRef, mediaRecorderRef,
  statsIntervalRef, lastProcessedText,
  timers,           \* the intervals set and not cleared, each with the id it polls
  recog,            \* the SpeechRecognition objects and their handler closures
  pending,          \* async handler invocations suspended at an await
  statsReqs,        \* stats requests of poll ticks in flight
  textPosts,        \* text-analysis posts in flight
  sessions,         \* backend: sessions created and not deleted
  nextId,           \* backend: next session id
  widget,           \* "mounted", "unmounted", or "cleanupThrew"
  streams,          \* the microphone streams acquired whose tracks are live
  dropped           \* the last start()/stop() call rejected by its guard, or
                    \* "poll" after a failed poll that found metrics set

vars == <<user, authMode, error, storedUsers, isRecording, isProcessingAudio,
          transcript, finalTranscript, sessionId, liveStats, speechAnalysis,
          recognitionRef, audioContextRef, mediaRecorderRef, statsIntervalRef, timers,
          lastProcessedText, recog, pending, statsReqs, textPosts, sessions,
          nextId, widget, streams, dropped>>

authVars == <<user, authMode, storedUsers>>
textVars == <<transcript, finalTranscript>>
captureVars == <<recognitionRef, audioContextRef, mediaRecorderRef, recog>>
backendVars == <<sessions, nextId>>
netVars == <<statsReqs, textPosts>>
pollVars == <<statsIntervalRef, timers>>
hostVars == <<widget, streams>>

\* everything but the record of rejected calls
ctlVars == <<user, authMode, error, storedUsers, isRecording, isProcessingAudio,
             transcript, finalTranscript, sessionId, liveStats, speechAnalysis,
             recognitionRef, audioContextRef, mediaRecorderRef, statsIntervalRef, timers,
             lastProcessedText, recog, pending, statsReqs, textPosts, sessions,
             nextId, widget, streams>>

\* ------------------------------------------------------------ text model
RECURSIVE TrimStart(_)
TrimStart(s) ==
  IF s = << >> THEN << >>
  ELSE IF Head(s) = " " THEN TrimStart(Tail(s)) ELSE s

RECURSIVE TrimEnd(_)
TrimEnd(s) ==
  IF s = << >> THEN << >>
  ELSE IF s[Len(s)] = " " THEN TrimEnd(SubSeq(s, 1, Len(s) - 1)) ELSE s

trim(s) == TrimEnd(TrimStart(s))

IsPrefix(s, t) == Len(s) <= Len(t) /\ SubSeq(t, 1, Len(s)) = s

\* a loop that appends the final results without the separating space
RECURSIVE FinalOfNoSpace(_)
FinalOfNoSpace(ev) ==
  IF ev = << >> THEN << >>
  ELSE (IF Head(ev).f THEN Head(ev).t ELSE << >>) \o FinalOfNoSpace(Tail(ev))

\* the loop of recognition.onresult over event.results: the final results,
\* each followed by a space
RECURSIVE FinalOf(_)
FinalOf(ev) ==
  IF ev = << >> THEN << >>
  ELSE (IF Head(ev).f THEN Head(ev).t \o <<" ">> ELSE << >>) \o FinalOf(Tail(ev))

RECURSIVE InterimOf(_)
InterimOf(ev) ==
  IF ev = << >> THEN << >>
  ELSE (IF Head(ev).f THEN << >> ELSE Head(ev).t) \o InterimOf(Tail(ev))

\* newFinalText: the transcript of the last final result of the event
RECURSIVE NewFinalTextOf(_)
NewFinalTextOf(ev) ==
  IF ev = << >> THEN << >>
  ELSE IF ev[Len(ev)].f THEN ev[Len(ev)].t
       ELSE NewFinalTextOf(SubSeq(ev, 1, Len(ev) - 1))

\* a response that replaces the metrics instead of merging into them
MergeStatsReplaces(prev, p) == [m \in Metrics |-> IF m \in DOMAIN p THEN p[m] ELSE 0]

\* { ...prev, ...data.live_stats }
MergeStats(prev, p) == [m \in Metrics |-> IF m \in DOMAIN p THEN p[m] ELSE prev[m]]

\* ------------------------------------------------------------------ init
FreeRecog == [status |-> "free", ft |-> << >>, sid |-> Null, rec |-> FALSE]

\* an object that has ended fires no more events: its closure is dropped
EndedRecog == [status |-> "ended", ft |-> << >>, sid |-> Null, rec |-> FALSE]

\* an object whose start() threw: it was never started and fires no events
FailedRecog == [status |-> "failed", ft |-> << >>, sid |-> Null, rec |-> FALSE]

Init ==
  /\ user = NoUser
  /\ authMode = "login"
  /\ error = ""
  /\ storedUsers = [e \in Emails \ {""} |->
                      IF e = ReturningUser THEN ReturningPassword ELSE NoPw]
  /\ isRecording = FALSE
  /\ isProcessingAudio = FALSE
  /\ transcript = << >>
  /\ finalTranscript = << >>
  /\ sessionId = Null
  /\ liveStats = ZeroStats
  /\ speechAnalysis = NoAnalysis
  /\ recognitionRef = Null
  /\ audioContextRef = NoContext
  /\ mediaRecorderRef = NoRecorder
  /\ statsIntervalRef = Null
  /\ timers = EmptyBag
  /\ lastProcessedText = << >>
  /\ recog = [n \in 1..MaxRecogs |-> FreeRecog]
  /\ pending = << >>
  /\ statsReqs = << >>
  /\ textPosts = << >>
  /\ sessions = {}
  /\ nextId = 1
  /\ widget = "mounted"
  /\ streams = 0
  /\ dropped = "none"

\* ------------------------------------------------------------- helpers
Remove(seq, i) == SubSeq(seq, 1, i - 1) \o SubSeq(seq, i + 1, Len(seq))

\* recognitionRef.current.stop(): a running recognition stops listening; it
\* may still deliver results until its end event
StopRecog(rg, ref) ==
  IF ref # Null /\ rg[ref].status = "active"
  THEN [rg EXCEPT ![ref].status = "stopping"] ELSE rg

\* an object that has ended and that recognitionRef no longer names is gone
Unref(rg, ref) ==
  IF ref # Null /\ rg[ref].status \in {"ended", "failed"}
  THEN [rg EXCEPT ![ref] = FreeRecog] ELSE rg

\* if (state === 'recording') mediaRecorderRef.current.stop(); a stopped
\* recorder is never started again, so the closure of its handler is dropped
StopRecorder(mr) ==
  IF mr # NoRecorder THEN [state |-> "inactive", sid |-> Null, rec |-> FALSE] ELSE mr

\* setInterval: one more live interval polling the session sid
SetInterval(tm, sid) == tm (+) SetToBag({sid})

\* a stop that forgets the handle without clearing the interval
ClearIntervalForgets(tm, ref) == tm

\* clearInterval(statsIntervalRef.current) under if (statsIntervalRef.current)
ClearInterval(tm, ref) == IF ref # Null THEN tm (-) SetToBag({ref}) ELSE tm

StartInFlight == \E i \in 1..Len(pending) : pending[i].op = "start"
StopInFlight == \E i \in 1..Len(pending) : pending[i].pc = "stopreq"

\* RecordingMode of the specification, read off the two flags
Mode ==
  IF isProcessingAudio THEN (IF StartInFlight THEN "Starting" ELSE "Stopping")
  ELSE IF isRecording THEN "Recording" ELSE "Idle"

\* ---------------------------------------------------------------- auth
\* a signup that stores the submitted password over the one that is stored
handleAuthOverwrites(email, password) ==
  /\ user = NoUser
  /\ IF email = "" \/ password = ""
     THEN /\ error' = "Email and password are required."
          /\ UNCHANGED authVars
     ELSE IF authMode = "signup"
     THEN /\ storedUsers' = [storedUsers EXCEPT ![email] = password]
          /\ user' = email
          /\ error' = ""
          /\ UNCHANGED authMode
     ELSE IF storedUsers[email] = NoPw \/ storedUsers[email] # password
          THEN /\ error' = "Invalid email or password."
               /\ UNCHANGED authVars
          ELSE /\ user' = email
               /\ error' = ""
               /\ UNCHANGED <<authMode, storedUsers>>
  /\ UNCHANGED <<hostVars, isRecording, isProcessingAudio, textVars, sessionId,
                 liveStats, speechAnalysis, captureVars, pollVars,
                 lastProcessedText, pending, netVars, backendVars, dropped>>

\* handleAuth: the form is shown only while no user is set
handleAuth(email, password) ==
  /\ user = NoUser
  /\ IF email = "" \/ password = ""
     THEN /\ error' = "Email and password are required."
          /\ UNCHANGED authVars
     ELSE IF authMode = "signup"
     THEN IF storedUsers[email] # NoPw
          THEN /\ error' = "User exists. Please login."
               /\ UNCHANGED authVars
          ELSE /\ storedUsers' = [storedUsers EXCEPT ![email] = password]
               /\ user' = email
               /\ error' = ""
               /\ UNCHANGED authMode
     ELSE IF storedUsers[email] = NoPw \/ storedUsers[email] # password
          THEN /\ error' = "Invalid email or password."
               /\ UNCHANGED authVars
          ELSE /\ user' = email
               /\ error' = ""
               /\ UNCHANGED <<authMode, storedUsers>>
  /\ UNCHANGED <<hostVars, isRecording, isProcessingAudio, textVars, sessionId,
                 liveStats, speechAnalysis, captureVars, pollVars,
                 lastProcessedText, pending, netVars, backendVars, dropped>>

\* the switch button of the auth box
switchAuthMode ==
  /\ user = NoUser
  /\ authMode' = IF authMode = "login" THEN "signup" ELSE "login"
  /\ error' = ""
  /\ UNCHANGED <<user, storedUsers, hostVars, isRecording, isProcessingAudio, textVars,
                 sessionId, liveStats, speechAnalysis, captureVars,
                 pollVars, lastProcessedText, pending, netVars,
                 backendVars, dropped>>

\* a start that goes to the audio initialisation without ensuring a session
StartBodySkipsCreate ==
  /\ Len(pending) < MaxTasks
  /\ isProcessingAudio' = TRUE
  /\ error' = ""
  /\ dropped' = "none"
  /\ pending' = Append(pending,
        [op |-> "start", pc |-> "audio",
         sid |-> sessionId, cur |-> sessionId, ft |-> finalTranscript,
         rec |-> isRecording])
  /\ UNCHANGED <<authVars, hostVars, isRecording, textVars, sessionId, liveStats,
                 speechAnalysis, captureVars, pollVars,
                 lastProcessedText, netVars, backendVars>>

\* a start that asks for a new session whether or not one is held
StartBodyAlwaysCreates ==
  /\ Len(pending) < MaxTasks
  /\ isProcessingAudio' = TRUE
  /\ error' = ""
  /\ dropped' = "none"
  /\ pending' = Append(pending,
        [op |-> "start", pc |-> "create",
         sid |-> sessionId, cur |-> sessionId, ft |-> finalTranscript,
         rec |-> isRecording])
  /\ UNCHANGED <<authVars, hostVars, isRecording, textVars, sessionId, liveStats,
                 speechAnalysis, captureVars, pollVars,
                 lastProcessedText, netVars, backendVars>>

\* --------------------------------------------------------------- start
\* startRecording past its guard: up to the first await
StartBody ==
  /\ Len(pending) < MaxTasks
  /\ isProcessingAudio' = TRUE
  /\ error' = ""
  /\ dropped' = "none"
  /\ pending' = Append(pending,
        [op |-> "start", pc |-> IF sessionId = Null THEN "create" ELSE "audio",
         sid |-> sessionId, cur |-> sessionId, ft |-> finalTranscript,
         rec |-> isRecording])
  /\ UNCHANGED <<authVars, hostVars, isRecording, textVars, sessionId, liveStats,
                 speechAnalysis, captureVars, pollVars,
                 lastProcessedText, netVars, backendVars>>

\* a call rejected by the guard of startRecording or stopRecording returns
\* at once; dropped remembers a stop() rejected while a start is in flight
\* and a start() rejected while recording, until the start fails or the next
\* stop is accepted, and ("restop") a stop() rejected while a stop request is
\* in flight, until that request settles
Rejected(what) ==
  /\ dropped' = IF (what = "stop" /\ isProcessingAudio /\ StartInFlight)
                    \/ (what = "start" /\ isRecording)
                 THEN what
                 ELSE IF what = "stop" /\ StopInFlight THEN "restop"
                 ELSE dropped
  /\ UNCHANGED <<authVars, hostVars, error, isRecording, isProcessingAudio, textVars,
                 sessionId, liveStats, speechAnalysis, captureVars,
                 pollVars, lastProcessedText, pending, netVars,
                 backendVars>>

\* a guard that forgets the recording flag
StartGuardIgnoresRecording == ~isProcessingAudio

StartGuard == ~(isProcessingAudio \/ isRecording)

startRecording ==
  /\ user # NoUser
  /\ IF StartGuard THEN StartBody ELSE Rejected("start")

\* a rollback that leaves the audio context open
StartFailsKeepsContext(i) ==
  /\ error' = "Failed to start recording"
  /\ recog' = StopRecog(recog, recognitionRef)
  /\ mediaRecorderRef' = StopRecorder(mediaRecorderRef)
  /\ isRecording' = FALSE
  /\ isProcessingAudio' = FALSE
  /\ pending' = Remove(pending, i)
  /\ dropped' = "none"
  /\ UNCHANGED <<authVars, hostVars, textVars, sessionId, liveStats, speechAnalysis,
                 recognitionRef, audioContextRef, pollVars,
                 lastProcessedText, netVars, backendVars>>

\* the catch and finally blocks of startRecording
StartFails(i) ==
  /\ error' = "Failed to start recording"
  /\ recog' = StopRecog(recog, recognitionRef)
  /\ mediaRecorderRef' = StopRecorder(mediaRecorderRef)
  /\ audioContextRef' = NoContext
  /\ isRecording' = FALSE
  /\ isProcessingAudio' = FALSE
  /\ pending' = Remove(pending, i)
  /\ dropped' = "none"
  /\ UNCHANGED <<authVars, hostVars, textVars, sessionId, liveStats, speechAnalysis,
                 recognitionRef, pollVars, lastProcessedText, netVars,
                 backendVars>>

\* a start that goes on to the audio initialisation when the create request
\* has failed
createVoiceSessionIgnoresFailure(i, ok) ==
  /\ pending[i].op = "start" /\ pending[i].pc = "create"
  /\ IF ok
     THEN /\ nextId <= MaxSessions
          /\ sessions' = sessions \cup {nextId}
          /\ nextId' = nextId + 1
          /\ sessionId' = nextId
          /\ pending' = [pending EXCEPT ![i].pc = "audio", ![i].cur = nextId]
     ELSE /\ pending' = [pending EXCEPT ![i].pc = "audio"]
          /\ UNCHANGED <<sessions, nextId, sessionId>>
  /\ UNCHANGED <<authVars, hostVars, error, isRecording, isProcessingAudio,
                 textVars, liveStats, speechAnalysis, captureVars,
                 pollVars, lastProcessedText, netVars, dropped>>

\* createVoiceSession settles
createVoiceSession(i, ok) ==
  /\ pending[i].op = "start" /\ pending[i].pc = "create"
  /\ IF ok
     THEN /\ nextId <= MaxSessions
          /\ sessions' = sessions \cup {nextId}
          /\ nextId' = nextId + 1
          /\ sessionId' = nextId
          /\ pending' = [pending EXCEPT ![i].pc = "audio", ![i].cur = nextId]
          /\ UNCHANGED <<authVars, hostVars, error, isRecording, isProcessingAudio,
                         textVars, liveStats, speechAnalysis, captureVars,
                         pollVars, lastProcessedText, netVars, dropped>>
     ELSE StartFails(i)

\* a start that goes on to the backend start request without the microphone
initAudioProcessingIgnoresDenial(i, ok) ==
  /\ pending[i].op = "start" /\ pending[i].pc = "audio"
  /\ pending' = [pending EXCEPT ![i].pc = "startreq"]
  /\ IF ok
     THEN /\ streams < MaxStreams
          /\ streams' = streams + 1
          /\ audioContextRef' = "open"
          /\ mediaRecorderRef' = [state |-> "inactive", sid |-> pending[i].sid,
                                  rec |-> pending[i].rec]
     ELSE UNCHANGED <<streams, audioContextRef, mediaRecorderRef>>
  /\ UNCHANGED <<authVars, widget, error, isRecording, isProcessingAudio,
                 textVars, sessionId, liveStats, speechAnalysis,
                 recognitionRef, recog, pollVars,
                 lastProcessedText, netVars, backendVars, dropped>>

\* initAudioProcessing settles (getUserMedia granted or denied)
initAudioProcessing(i, ok) ==
  /\ pending[i].op = "start" /\ pending[i].pc = "audio"
  /\ IF ok
     THEN /\ streams < MaxStreams
          /\ streams' = streams + 1
          /\ audioContextRef' = "open"
          /\ mediaRecorderRef' = [state |-> "inactive", sid |-> pending[i].sid,
                                  rec |-> pending[i].rec]
          /\ pending' = [pending EXCEPT ![i].pc = "startreq"]
          /\ UNCHANGED <<authVars, widget, error, isRecording, isProcessingAudio,
                         textVars, sessionId, liveStats, speechAnalysis,
                         recognitionRef, recog, pollVars,
                         lastProcessedText, netVars, backendVars, dropped>>
     ELSE StartFails(i)

StartOutcomes == {"ok", "fail", "recognitionThrows", "recorderThrows"}

\* the backend start request settles; on success recognition and chunk
\* capture are started, the mode becomes Recording and the poller starts
startResponse(i, outcome) ==
  /\ pending[i].op = "start" /\ pending[i].pc = "startreq"
  /\ IF outcome = "fail"
     THEN StartFails(i)
     ELSE LET t == pending[i]
              rg0 == Unref(recog, recognitionRef)
              started == outcome # "recognitionThrows"
          IN /\ t.cur \in sessions
             /\ \E n \in 1..MaxRecogs :
                  /\ rg0[n].status = "free"
                  /\ \A k \in 1..(n - 1) : rg0[k].status # "free"
                  /\ recognitionRef' = n
                  /\ recog' = [rg0 EXCEPT ![n] =
                       IF started
                       THEN [status |-> IF outcome = "ok" THEN "active" ELSE "stopping",
                             ft |-> t.ft, sid |-> t.sid, rec |-> t.rec]
                       ELSE FailedRecog]
             /\ pending' = Remove(pending, i)
             /\ isProcessingAudio' = FALSE
             /\ IF outcome = "ok"
                THEN /\ mediaRecorderRef' =
                          IF mediaRecorderRef # NoRecorder
                          THEN [mediaRecorderRef EXCEPT !.state = "recording"]
                          ELSE mediaRecorderRef
                     /\ isRecording' = TRUE
                     /\ statsIntervalRef' = t.cur
                     /\ timers' = SetInterval(ClearInterval(timers, statsIntervalRef), t.cur)
                     /\ lastProcessedText' = << >>
                     /\ UNCHANGED <<error, audioContextRef>>
                ELSE /\ error' = "Failed to start recording"
                     /\ mediaRecorderRef' = StopRecorder(mediaRecorderRef)
                     /\ audioContextRef' = NoContext
                     /\ isRecording' = FALSE
                     /\ UNCHANGED <<pollVars, lastProcessedText>>
             /\ dropped' = IF outcome = "ok" THEN dropped ELSE "none"
             /\ UNCHANGED <<authVars, hostVars, textVars, sessionId, liveStats,
                            speechAnalysis, netVars, backendVars>>

\* ---------------------------------------------------------------- stop
\* a guard that forgets the recording flag
StopGuardIgnoresRecording == sessionId # Null

StopGuard == sessionId # Null /\ isRecording

\* a stop that issues the backend request before it stops recognition
StopBodyRequestsFirst(caller) ==
  /\ Len(pending) < MaxTasks
  /\ isProcessingAudio' = TRUE
  /\ statsIntervalRef' = Null
  /\ timers' = ClearInterval(timers, statsIntervalRef)
  /\ mediaRecorderRef' = StopRecorder(mediaRecorderRef)
  /\ audioContextRef' = NoContext
  /\ isRecording' = FALSE
  /\ dropped' = "none"
  /\ pending' = Append(pending,
        [op |-> caller, pc |-> "stopreq", sid |-> sessionId, cur |-> Null,
         ft |-> << >>, rec |-> isRecording])
  /\ UNCHANGED <<authVars, hostVars, error, textVars, sessionId, liveStats,
                 speechAnalysis, recognitionRef, recog, lastProcessedText,
                 netVars, backendVars>>

\* a stop that leaves the poll timer running
StopBodyKeepsPolling(caller) ==
  /\ Len(pending) < MaxTasks
  /\ isProcessingAudio' = TRUE
  /\ recog' = Unref(StopRecog(recog, recognitionRef), recognitionRef)
  /\ recognitionRef' = Null
  /\ mediaRecorderRef' = StopRecorder(mediaRecorderRef)
  /\ audioContextRef' = NoContext
  /\ isRecording' = FALSE
  /\ dropped' = "none"
  /\ pending' = Append(pending,
        [op |-> caller, pc |-> "stopreq", sid |-> sessionId, cur |-> Null,
         ft |-> << >>, rec |-> isRecording])
  /\ UNCHANGED <<authVars, hostVars, error, textVars, sessionId, liveStats,
                 speechAnalysis, pollVars, lastProcessedText, netVars,
                 backendVars>>

\* stopRecording past its guard: up to the await of the backend stop
\* request; caller is the handler that continues when it has settled
StopBody(caller) ==
  /\ Len(pending) < MaxTasks
  /\ isProcessingAudio' = TRUE
  /\ statsIntervalRef' = Null
  /\ timers' = ClearInterval(timers, statsIntervalRef)
  /\ recog' = Unref(StopRecog(recog, recognitionRef), recognitionRef)
  /\ recognitionRef' = Null
  /\ mediaRecorderRef' = StopRecorder(mediaRecorderRef)
  /\ audioContextRef' = NoContext
  /\ isRecording' = FALSE
  /\ dropped' = "none"
  /\ pending' = Append(pending,
        [op |-> caller, pc |-> "stopreq", sid |-> sessionId, cur |-> Null,
         ft |-> << >>, rec |-> isRecording])
  /\ UNCHANGED <<authVars, hostVars, error, textVars, sessionId, liveStats,
                 speechAnalysis, lastProcessedText, netVars, backendVars>>

\* a stop without its guard
stopRecordingUnguarded ==
  /\ user # NoUser
  /\ StopBody("stop")

stopRecording ==
  /\ user # NoUser
  /\ IF StopGuard THEN StopBody("stop") ELSE Rejected("stop")

\* toggleRecording, the start/stop button
toggleRecording ==
  /\ user # NoUser
  /\ ~isProcessingAudio
  /\ IF isRecording
     THEN (IF StopGuard THEN StopBody("stop") ELSE Rejected("stop"))
     ELSE (IF StartGuard THEN StartBody ELSE Rejected("start"))

StopOutcomes == {"ok", "fail"}

\* the backend stop request settles: the rest of stopRecording, and then the
\* caller's continuation up to its next await
stopResponse(i, outcome, analysis) ==
  /\ pending[i].pc = "stopreq"
  /\ outcome = "ok" => pending[i].sid \in sessions
  /\ outcome = "fail" => analysis = NoAnalysis
  /\ LET t == pending[i]
         an == IF outcome = "ok" /\ analysis # NoAnalysis THEN analysis ELSE speechAnalysis
     IN /\ isProcessingAudio' = FALSE
        /\ error' = IF outcome = "ok" THEN error ELSE "Failed to stop recording"
        /\ CASE t.op = "stop" ->
                  /\ speechAnalysis' = an
                  /\ pending' = Remove(pending, i)
                  /\ UNCHANGED <<authVars, hostVars, textVars, pollVars>>
             [] t.op = "clear" ->
                  /\ transcript' = << >>
                  /\ finalTranscript' = << >>
                  /\ speechAnalysis' = NoAnalysis
                  /\ pending' = [pending EXCEPT ![i].pc = "delete"]
                  /\ UNCHANGED <<authVars, hostVars, pollVars>>
             [] t.op = "logout" ->
                  /\ speechAnalysis' = an
                  /\ statsIntervalRef' = Null
                  /\ timers' = ClearInterval(timers, statsIntervalRef)
                  /\ pending' = [pending EXCEPT ![i].pc = "delete"]
                  /\ UNCHANGED <<authVars, hostVars, textVars>>
        /\ dropped' = "none"
        /\ UNCHANGED <<isRecording, sessionId, liveStats, captureVars,
                       lastProcessedText, netVars, backendVars>>

\* --------------------------------------------------------------- clear
\* clearTranscript when stopRecording is not awaited (or returns at once)
ClearBody ==
  /\ transcript' = << >>
  /\ finalTranscript' = << >>
  /\ speechAnalysis' = NoAnalysis
  /\ IF sessionId # Null
     THEN /\ Len(pending) < MaxTasks
          /\ pending' = Append(pending,
                [op |-> "clear", pc |-> "delete", sid |-> sessionId,
                 cur |-> Null, ft |-> << >>, rec |-> isRecording])
          /\ UNCHANGED <<liveStats, lastProcessedText>>
     ELSE /\ liveStats' = ZeroStats
          /\ lastProcessedText' = << >>
          /\ UNCHANGED pending
  /\ UNCHANGED <<authVars, hostVars, error, isRecording, isProcessingAudio, sessionId,
                 captureVars, pollVars, netVars, backendVars, dropped>>

\* the clear button is enabled when there is text or a recording
clearTranscript ==
  /\ user # NoUser
  /\ trim(finalTranscript) # << >> \/ isRecording
  /\ IF isRecording /\ StopGuard THEN StopBody("clear") ELSE ClearBody

\* -------------------------------------------------------------- logout
LogoutBody ==
  /\ statsIntervalRef' = Null
  /\ timers' = ClearInterval(timers, statsIntervalRef)
  /\ IF sessionId # Null
     THEN /\ Len(pending) < MaxTasks
          /\ pending' = Append(pending,
                [op |-> "logout", pc |-> "delete", sid |-> sessionId,
                 cur |-> Null, ft |-> << >>, rec |-> isRecording])
          /\ UNCHANGED <<authVars, hostVars, textVars, sessionId, speechAnalysis,
                         liveStats, lastProcessedText>>
     ELSE /\ user' = NoUser
          /\ authMode' = "login"
          /\ transcript' = << >>
          /\ finalTranscript' = << >>
          /\ sessionId' = Null
          /\ speechAnalysis' = NoAnalysis
          /\ liveStats' = ZeroStats
          /\ lastProcessedText' = << >>
          /\ UNCHANGED <<storedUsers, hostVars, pending>>
  /\ UNCHANGED <<error, isRecording, isProcessingAudio, captureVars, netVars,
                 backendVars, dropped>>

handleLogout ==
  /\ user # NoUser
  /\ IF isRecording /\ StopGuard THEN StopBody("logout") ELSE LogoutBody

\* the DELETE request of clearTranscript or handleLogout settles (its
\* outcome is not inspected) and the handler runs to its end
deleteResponse(i, ok) ==
  /\ pending[i].pc = "delete"
  /\ sessions' = IF ok THEN sessions \ {pending[i].sid} ELSE sessions
  /\ sessionId' = Null
  /\ liveStats' = ZeroStats
  /\ lastProcessedText' = << >>
  /\ pending' = Remove(pending, i)
  /\ IF pending[i].op = "logout"
     THEN /\ user' = NoUser
          /\ authMode' = "login"
          /\ transcript' = << >>
          /\ finalTranscript' = << >>
          /\ speechAnalysis' = NoAnalysis
          /\ UNCHANGED <<storedUsers, hostVars>>
     ELSE UNCHANGED <<authVars, hostVars, textVars, speechAnalysis>>
  /\ UNCHANGED <<error, isRecording, isProcessingAudio, captureVars,
                 pollVars, netVars, nextId, dropped>>

\* ------------------------------------------------------------- polling
\* one tick of the interval installed by startStatsPolling
statsTick ==
  /\ \E sid \in BagToSet(timers) : statsReqs' = Append(statsReqs, sid)
  /\ Len(statsReqs) < MaxStatsReqs
  /\ UNCHANGED <<authVars, hostVars, error, isRecording, isProcessingAudio, textVars,
                 sessionId, liveStats, speechAnalysis, captureVars,
                 pollVars, lastProcessedText, pending, textPosts,
                 backendVars, dropped>>

\* a failed poll that resets the metrics
statsResponseResetsOnFailure(j, payload) ==
  /\ j \in 1..Len(statsReqs)
  /\ payload # NoStats => statsReqs[j] \in sessions
  /\ liveStats' = IF payload # NoStats THEN MergeStats(liveStats, payload) ELSE ZeroStats
  /\ statsReqs' = Remove(statsReqs, j)
  /\ dropped' = IF payload = NoStats /\ liveStats # ZeroStats THEN "poll" ELSE dropped
  /\ UNCHANGED <<authVars, hostVars, error, isRecording, isProcessingAudio, textVars,
                 sessionId, speechAnalysis, captureVars, pollVars,
                 lastProcessedText, pending, textPosts, backendVars>>

\* the stats request of a tick settles; payload is NoStats for a failed request
\* and for a response without success or without live_stats
statsResponse(j, payload) ==
  /\ j \in 1..Len(statsReqs)
  /\ payload # NoStats => statsReqs[j] \in sessions
  /\ liveStats' = IF payload # NoStats THEN MergeStats(liveStats, payload) ELSE liveStats
  /\ statsReqs' = Remove(statsReqs, j)
  /\ dropped' = IF payload = NoStats /\ liveStats # ZeroStats THEN "poll" ELSE dropped
  /\ UNCHANGED <<authVars, hostVars, error, isRecording, isProcessingAudio, textVars,
                 sessionId, speechAnalysis, captureVars, pollVars,
                 lastProcessedText, pending, textPosts, backendVars>>

\* --------------------------------------------------------- recognition
\* processTextUpdate as called from onresult, with the sessionId and
\* isRecording of the closure c: the new lastProcessedText and textPosts
ForwardText(c, newText) ==
  c.sid # Null /\ c.rec /\ trim(newText) # << >> /\ newText # lastProcessedText

\* recognition.onresult of object n
onresult(n, ev) ==
  /\ recog[n].status \in {"active", "stopping"}
  /\ LET c == recog[n]
         final == FinalOf(ev)
         interim == InterimOf(ev)
         newFinalText == NewFinalTextOf(ev)
     IN IF final # << >>
        THEN /\ finalTranscript' = finalTranscript \o final
             /\ transcript' = transcript \o final \o interim
             /\ IF trim(newFinalText) # << >> /\ ForwardText(c, trim(newFinalText))
                THEN /\ lastProcessedText' = trim(newFinalText)
                     /\ textPosts' = Append(textPosts,
                           [sid |-> c.sid, text_chunk |-> trim(newFinalText)])
                ELSE UNCHANGED <<lastProcessedText, textPosts>>
        ELSE /\ transcript' = c.ft \o interim
             /\ UNCHANGED <<finalTranscript, lastProcessedText, textPosts>>
  /\ Len(finalTranscript') <= MaxTextLen
  /\ Len(transcript') <= MaxTextLen
  /\ UNCHANGED <<authVars, hostVars, error, isRecording, isProcessingAudio, sessionId,
                 liveStats, speechAnalysis, captureVars, pollVars,
                 pending, statsReqs, backendVars, dropped>>

\* an onend that sees the recording flag set and restarts whatever
\* recognitionRef names
onendRestartsOnRef(n) ==
  /\ recog[n].status \in {"active", "stopping"}
  /\ recog' = [recog EXCEPT ![n] =
        IF recognitionRef # Null /\ recognitionRef = n
        THEN [@ EXCEPT !.status = "active"]
        ELSE FreeRecog]
  /\ UNCHANGED <<authVars, hostVars, error, isRecording, isProcessingAudio, textVars,
                 sessionId, liveStats, speechAnalysis, recognitionRef,
                 audioContextRef, mediaRecorderRef, pollVars,
                 lastProcessedText, pending, netVars, backendVars, dropped>>

\* recognition.onend of object n: the restart is guarded by the isRecording
\* of the closure
onend(n) ==
  /\ recog[n].status \in {"active", "stopping"}
  /\ recog' = [recog EXCEPT ![n] =
        IF recog[n].rec /\ recognitionRef # Null /\ recognitionRef = n
        THEN [@ EXCEPT !.status = "active"]
        ELSE IF recognitionRef = n THEN EndedRecog
        ELSE FreeRecog]
  /\ UNCHANGED <<authVars, hostVars, error, isRecording, isProcessingAudio, textVars,
                 sessionId, liveStats, speechAnalysis, recognitionRef,
                 audioContextRef, mediaRecorderRef, pollVars,
                 lastProcessedText, pending, netVars, backendVars, dropped>>

ErrorKinds == {"no-speech", "network", "not-allowed", "aborted"}

\* the message recognition.onerror shows for an error kind ("" for none)
ErrorText(kind) ==
  IF kind = "not-allowed"
  THEN "Microphone access denied. Please allow microphone access and refresh the page."
  ELSE IF kind = "network" THEN "Network error during speech recognition."
  ELSE IF kind = "aborted" THEN "Speech recognition error: aborted"
  ELSE ""

\* an onerror that ends the recording on any error
onerrorStopsRecording(n, kind) ==
  /\ recog[n].status \in {"active", "stopping"}
  /\ error' = IF ErrorText(kind) # "" THEN ErrorText(kind) ELSE error
  /\ isRecording' = FALSE
  /\ statsIntervalRef' = Null
  /\ timers' = ClearInterval(timers, statsIntervalRef)
  /\ UNCHANGED <<authVars, hostVars, isProcessingAudio, textVars,
                 sessionId, liveStats, speechAnalysis, captureVars,
                 lastProcessedText, pending, netVars, backendVars, dropped>>

\* recognition.onerror of object n
onerror(n, kind) ==
  /\ recog[n].status \in {"active", "stopping"}
  /\ error' = IF ErrorText(kind) # "" THEN ErrorText(kind) ELSE error
  /\ UNCHANGED <<authVars, hostVars, isRecording, isProcessingAudio, textVars,
                 sessionId, liveStats, speechAnalysis, captureVars, pollVars,
                 lastProcessedText, pending, netVars, backendVars, dropped>>

\* mediaRecorder.ondataavailable with a chunk that is not empty:
\* processAudioChunk with the sessionId and isRecording of the closure of
\* the recorder; a chunk that passes the guard is posted
ondataavailable ==
  /\ mediaRecorderRef.state = "recording"
  /\ IF mediaRecorderRef.sid # Null /\ mediaRecorderRef.rec
     THEN /\ textPosts' = Append(textPosts,
                [sid |-> mediaRecorderRef.sid, audio_data |-> "chunk",
                 text_chunk |-> << >>])
          /\ UNCHANGED dropped
     ELSE /\ dropped' = "chunk"
          /\ UNCHANGED textPosts
  /\ UNCHANGED <<authVars, hostVars, error, isRecording, isProcessingAudio,
                 textVars, sessionId, liveStats, speechAnalysis, captureVars,
                 pollVars, lastProcessedText, pending, statsReqs, backendVars>>

\* the post of processAudioChunk or processTextUpdate settles; payload is
\* NoStats for a failed request, a response that is not ok and a response
\* without success or live_stats, all of which are only logged
postResponse(k, payload) ==
  /\ k \in 1..Len(textPosts)
  /\ payload # NoStats => textPosts[k].sid \in sessions
  /\ liveStats' = IF payload # NoStats THEN MergeStats(liveStats, payload) ELSE liveStats
  /\ textPosts' = Remove(textPosts, k)
  /\ UNCHANGED <<authVars, hostVars, error, isRecording, isProcessingAudio,
                 textVars, sessionId, speechAnalysis, captureVars, pollVars,
                 lastProcessedText, pending, statsReqs, backendVars, dropped>>

\* ------------------------------------------------------------- unmount
\* a cleanup that calls stop() on whatever recorder there is
CleanupStopsAnyRecorder(mr) == mr # NoRecorder

\* the cleanup stops a recorder that is recording, and no other
CleanupStopsRecorder(mr) == mr # NoRecorder /\ mr.state = "recording"

CleanupRecorder(mr) == IF CleanupStopsRecorder(mr) THEN StopRecorder(mr) ELSE mr

\* audioContextRef.current.close() under if (audioContextRef.current): the
\* reference is kept
CloseContext(ac) == IF ac # NoContext THEN "closed" ELSE ac

\* the cleanup of the effect that runs when the widget is unmounted; stop()
\* of a recorder that is not recording throws and ends the cleanup there
unmount ==
  /\ widget = "mounted"
  /\ statsIntervalRef' = Null
  /\ timers' = ClearInterval(timers, statsIntervalRef)
  /\ recog' = StopRecog(recog, recognitionRef)
  /\ IF CleanupStopsRecorder(mediaRecorderRef) /\ mediaRecorderRef.state # "recording"
     THEN /\ widget' = "cleanupThrew"
          /\ UNCHANGED <<mediaRecorderRef, audioContextRef>>
     ELSE /\ widget' = "unmounted"
          /\ mediaRecorderRef' = CleanupRecorder(mediaRecorderRef)
          /\ audioContextRef' = CloseContext(audioContextRef)
  /\ UNCHANGED <<authVars, streams, error, isRecording, isProcessingAudio, textVars,
                 sessionId, liveStats, speechAnalysis, recognitionRef,
                 lastProcessedText, pending, netVars, backendVars, dropped>>

\* ------------------------------------------------------- specification
Next ==
  \/ handleAuth(ReturningUser, ReturningPassword)
  \/ startRecording
  \/ stopRecording
  \/ toggleRecording
  \/ clearTranscript
  \/ handleLogout
  \/ \E i \in 1..Len(pending), ok \in BOOLEAN : createVoiceSession(i, ok)
  \/ \E i \in 1..Len(pending), ok \in BOOLEAN : initAudioProcessing(i, ok)
  \/ \E i \in 1..Len(pending), o \in StartOutcomes : startResponse(i, o)
  \/ \E i \in 1..Len(pending), o \in StopOutcomes, a \in Analyses \cup {NoAnalysis} :
        stopResponse(i, o, a)
  \/ \E i \in 1..Len(pending), ok \in BOOLEAN : deleteResponse(i, ok)
  \/ statsTick
  \/ \E j \in 1..Len(statsReqs), p \in StatsPayloads \cup {NoStats} : statsResponse(j, p)
  \/ \E n \in 1..MaxRecogs, ev \in Events : onresult(n, ev)
  \/ \E n \in 1..MaxRecogs : onend(n)

Spec == Init /\ [][Next]_vars

\* ------------------------------------------------- the notes widget
\* components/VoiceNotes.js: recognition only, no backend session.  It uses
\* user, authMode, error, storedUsers, isRecording, transcript,
\* finalTranscript, recognitionRef and recog; the other variables stay as
\* they are initially.
notesFrame == <<isProcessingAudio, sessionId, liveStats, speechAnalysis,
                audioContextRef, mediaRecorderRef, pollVars,
                lastProcessedText, pending, netVars, backendVars, dropped>>

\* startRecording: the recognition object is created once, by the first
\* call, with the finalTranscript of that render; start() on an object that
\* has not ended throws and the handler is left before setIsRecording
notesStartRecording ==
  /\ user # NoUser
  /\ LET rg == IF recognitionRef = Null
               THEN [recog EXCEPT ![1] = [status |-> "ended", ft |-> finalTranscript,
                                          sid |-> Null, rec |-> FALSE]]
               ELSE recog
     IN /\ recognitionRef' = 1
        /\ IF rg[1].status \in {"active", "stopping"}
           THEN /\ recog' = rg
                /\ UNCHANGED <<isRecording, error>>
           ELSE /\ recog' = [rg EXCEPT ![1].status = "active"]
                /\ isRecording' = TRUE
                /\ error' = ""
  /\ UNCHANGED <<authVars, hostVars, textVars, notesFrame>>

notesStopRecording ==
  /\ user # NoUser
  /\ recog' = StopRecog(recog, recognitionRef)
  /\ isRecording' = FALSE
  /\ UNCHANGED <<authVars, hostVars, error, textVars, recognitionRef, notesFrame>>

notesToggleRecording ==
  IF isRecording THEN notesStopRecording ELSE notesStartRecording

\* recognition.onresult: final starts from the finalTranscript of the closure
notesOnresult(n, ev) ==
  /\ recog[n].status \in {"active", "stopping"}
  /\ LET final == recog[n].ft \o FinalOf(ev)
         interim == InterimOf(ev)
     IN /\ finalTranscript' = final
        /\ transcript' = final \o interim
  /\ Len(finalTranscript') <= MaxTextLen
  /\ Len(transcript') <= MaxTextLen
  /\ UNCHANGED <<authVars, hostVars, error, isRecording, recognitionRef, recog, notesFrame>>

\* the recognition ends (after stop(), or by itself); no onend handler is set
notesOnend(n) ==
  /\ recog[n].status \in {"active", "stopping"}
  /\ recog' = [recog EXCEPT ![n].status = "ended"]
  /\ UNCHANGED <<authVars, hostVars, error, isRecording, textVars, recognitionRef, notesFrame>>

\* the clear button is enabled when there is final text
notesClearTranscript ==
  /\ user # NoUser
  /\ trim(finalTranscript) # << >>
  /\ transcript' = << >>
  /\ finalTranscript' = << >>
  /\ UNCHANGED <<authVars, hostVars, error, isRecording, recognitionRef, recog, notesFrame>>

notesHandleLogout ==
  /\ user # NoUser
  /\ user' = NoUser
  /\ authMode' = "login"
  /\ transcript' = << >>
  /\ finalTranscript' = << >>
  /\ UNCHANGED <<storedUsers, hostVars, error, isRecording, recognitionRef, recog,
                 notesFrame>>

NextNotes ==
  \/ \E e \in Emails, p \in Passwords : handleAuth(e, p)
  \/ switchAuthMode
  \/ notesToggleRecording
  \/ notesClearTranscript
  \/ notesHandleLogout
  \/ \E ev \in Events : notesOnresult(1, ev)
  \/ notesOnend(1)

SpecNotes == Init /\ [][NextNotes]_vars

\* the end-to-end scenario of the coach widget: any user signs in or up, then
\* one start from the initial state with every call succeeding, the final result "hello world", stats
\* polls answered with {fluency: 70}, one stop answered with
\* {analysis: {overall_score: 8}}
NextScenario ==
  \/ \E email \in Emails, password \in Passwords : handleAuth(email, password)
  \/ switchAuthMode
  \/ ((nextId = 1 \/ ~StartGuard) /\ startRecording)
  \/ \E i \in 1..Len(pending) : createVoiceSession(i, TRUE)
  \/ \E i \in 1..Len(pending) : initAudioProcessing(i, TRUE)
  \/ \E i \in 1..Len(pending) : startResponse(i, "ok")
  \/ (finalTranscript = << >> /\ onresult(1, <<[t |-> HelloWorld, f |-> TRUE]>>))
  \/ onend(1)
  \/ statsTick
  \/ \E j \in 1..Len(statsReqs) : statsResponse(j, [fluency |-> 70])
  \/ (isRecording /\ toggleRecording)
  \/ stopRecording
  \/ \E i \in 1..Len(pending) : stopResponse(i, "ok", [overall_score |-> 8])

SpecScenario == Init /\ [][NextScenario]_vars

\* the poller of the coach widget under responses that name different
\* subsets of the metrics: one user, starts and stops that succeed
PollPayloads == {[fluency |-> 70], [volume |-> 50],
                 [fluency |-> 75, clarity |-> 60]}

NextStats ==
  \/ handleAuth(ReturningUser, ReturningPassword)
  \/ toggleRecording
  \/ \E i \in 1..Len(pending) : createVoiceSession(i, TRUE)
  \/ \E i \in 1..Len(pending) : initAudioProcessing(i, TRUE)
  \/ \E i \in 1..Len(pending) : startResponse(i, "ok")
  \/ \E i \in 1..Len(pending) : stopResponse(i, "ok", NoAnalysis)
  \/ statsTick
  \/ \E j \in 1..Len(statsReqs), p \in PollPayloads \cup {NoStats} : statsResponse(j, p)

SpecStats == Init /\ [][NextStats]_vars

\* the coach widget with its whole life: recognition errors, audio chunks
\* and the unmount of the component, after which no button can be pressed
\* while the requests in flight and the events of the objects go on
NextWidget ==
  \/ (widget = "mounted" /\ handleAuth(ReturningUser, ReturningPassword))
  \/ (widget = "mounted" /\ toggleRecording)
  \/ (widget = "mounted" /\ handleLogout)
  \/ unmount
  \/ \E i \in 1..Len(pending), ok \in BOOLEAN : createVoiceSession(i, ok)
  \/ \E i \in 1..Len(pending), ok \in BOOLEAN : initAudioProcessing(i, ok)
  \/ \E i \in 1..Len(pending), o \in {"ok", "fail"} : startResponse(i, o)
  \/ \E i \in 1..Len(pending), o \in StopOutcomes : stopResponse(i, o, NoAnalysis)
  \/ \E i \in 1..Len(pending) : deleteResponse(i, TRUE)
  \/ statsTick
  \/ \E j \in 1..Len(statsReqs), p \in StatsPayloads \cup {NoStats} : statsResponse(j, p)
  \/ \E n \in 1..MaxRecogs : onresult(n, <<[t |-> HelloWorld, f |-> TRUE]>>)
  \/ \E n \in 1..MaxRecogs : onend(n)
  \/ \E n \in 1..MaxRecogs, kind \in ErrorKinds : onerror(n, kind)
  \/ ondataavailable

SpecWidget == Init /\ [][NextWidget]_vars

\* ================================================================ claims
NoCapture ==
  /\ \A n \in 1..MaxRecogs : recog[n].status # "active"
  /\ mediaRecorderRef.state # "recording"
  /\ audioContextRef = NoContext

\* C1: a startRecording call while isProcessingAudio or isRecording is set
\* (Starting, Recording, Stopping) changes nothing: no task is begun, so no
\* create-session or start request is issued and no capture is acquired, and
\* the mode and the session id stay as they are.
C1_StartWhileBusyIsNoop ==
  [][((isProcessingAudio \/ isRecording) /\ startRecording) => UNCHANGED ctlVars]_vars

\* a second start() was called while Recording with the one session
C1_Witness ==
  /\ dropped = "start"
  /\ Mode = "Recording"
  /\ sessionId # Null
  /\ Cardinality(sessions) = 1
  /\ pending = << >>

\* C2 (as claimed): at most one backend session created by the controller
\* exists that has not been deleted.
C2_AtMostOneSession == Cardinality(sessions) <= 1

C5_StopFailureForcesIdle ==
  [][\A i \in 1..Len(pending) :
       (pending[i].pc = "stopreq" /\ stopResponse(i, "fail", NoAnalysis)) =>
          /\ ~isRecording'
          /\ ~isProcessingAudio'
          /\ statsIntervalRef' = Null
          /\ NoCapture'
          /\ error' = "Failed to stop recording"
          /\ sessionId' = sessionId]_vars

\* a stop from the toggle failed: Idle, error shown, the session still held
C5_Witness ==
  /\ Mode = "Idle"
  /\ error = "Failed to stop recording"
  /\ sessionId # Null
  /\ sessionId \in sessions
  /\ statsIntervalRef = Null
  /\ pending = << >>

\* C6 (as claimed): when a clear() that was invoked while Recording
\* completes (its DELETE has settled, after its stop sequence), the
\* controller is Idle, transcript and finalText are empty, every metric is
\* 0, there is no final analysis, no session id and no last forwarded
\* segment.
C6_ClearWhileRecordingResets ==
  [][\A i \in 1..Len(pending), ok \in BOOLEAN :
       (pending[i].op = "clear" /\ pending[i].rec /\ deleteResponse(i, ok)) =>
          /\ Mode' = "Idle"
          /\ transcript' = << >>
          /\ finalTranscript' = << >>
          /\ liveStats' = ZeroStats
          /\ speechAnalysis' = NoAnalysis
          /\ sessionId' = Null
          /\ lastProcessedText' = << >>]_vars

\* C7: once the scenario is complete (the final result received, a stats
\* response merged, the stop response with its analysis received), the
\* transcript is exactly "hello world ", fluency is 70 and the six other
\* metrics are 0, the analysis has overall_score 8, and the mode is Idle.
C7_Scenario ==
  (speechAnalysis # NoAnalysis /\ finalTranscript # << >> /\ liveStats # ZeroStats) =>
     /\ transcript = HelloWorld \o <<" ">>
     /\ liveStats = [ZeroStats EXCEPT !["fluency"] = 70]
     /\ speechAnalysis.overall_score = 8
     /\ Mode = "Idle"

\* the scenario has run to its end
C7_Witness ==
  /\ transcript = HelloWorld \o <<" ">>
  /\ liveStats = [ZeroStats EXCEPT !["fluency"] = 70]
  /\ speechAnalysis = [overall_score |-> 8]
  /\ Mode = "Idle"
  /\ sessionId = 1
  /\ pending = << >>

\* C8 (as claimed): a final event with text T appends T and one space to
\* finalText, and no interim text remains: the transcript shown is the new
\* finalText.
C8_FinalReplacesInterim ==
  [][\A n \in 1..MaxRecogs, ev \in Events :
       (FinalOf(ev) # << >> /\ InterimOf(ev) = << >> /\ onresult(n, ev)) =>
          /\ finalTranscript' = finalTranscript \o FinalOf(ev)
          /\ transcript' = finalTranscript']_vars

\* C9 (as claimed): after every recognition event the transcript shown is
\* the current finalText followed by the interim text of that event.
C9_TranscriptIsFinalPlusInterim ==
  [][\A n \in 1..MaxRecogs, ev \in Events :
       onresult(n, ev) => transcript' = finalTranscript' \o InterimOf(ev)]_vars

\* C10 (as claimed): in every step other than clear and logout the finalText
\* before the step is a prefix of the finalText after it (notes widget).
C10_FinalTextAppendOnly ==
  [][IsPrefix(finalTranscript, finalTranscript')
       \/ notesClearTranscript \/ notesHandleLogout]_vars

\* C11 (as claimed): a non-empty final segment delivered while Recording with
\* a session is forwarded in one text-analysis request for the session,
\* unless it equals the last forwarded segment, in which case no request is
\* issued: of two equal segments in a row the first is forwarded and the
\* second suppressed.
C11_DuplicateFinalForwardedOnce ==
  [][\A n \in 1..MaxRecogs, ev \in Events :
       LET seg == trim(NewFinalTextOf(ev))
       IN (Mode = "Recording" /\ sessionId # Null /\ seg # << >> /\ onresult(n, ev)) =>
            IF seg = lastProcessedText
            THEN textPosts' = textPosts
            ELSE /\ textPosts' = Append(textPosts, [sid |-> sessionId, text_chunk |-> seg])
                 /\ lastProcessedText' = seg]_vars

\* C12: a poll that fails (no usable live_stats) leaves every metric and the
\* poll timer as they were, and the next tick can be issued; the timer named
\* by statsIntervalRef goes away only in a step of stop, toggle, clear or
\* logout (all through stopStatsPolling).
C12_FailedPollKeepsStatsAndTimer ==
  [][/\ \A j \in 1..Len(statsReqs) :
          statsResponse(j, NoStats) =>
             /\ liveStats' = liveStats
             /\ pollVars' = pollVars
             /\ Len(statsReqs') < MaxStatsReqs
     /\ (statsIntervalRef # Null /\ statsIntervalRef' = Null) =>
          (stopRecording \/ toggleRecording \/ clearTranscript \/ handleLogout)]_vars

\* a poll failed after metrics had been set; they are kept and the timer runs
C12_Witness ==
  /\ dropped = "poll"
  /\ liveStats = [ZeroStats EXCEPT !["fluency"] = 70]
  /\ statsIntervalRef # Null
  /\ timers # EmptyBag
  /\ Mode = "Recording"

\* C13 (as claimed): once the poller has been stopped, the response to a
\* stats request issued before the stop does not change LiveStats.
C13_LateStatsIgnored ==
  [][\A j \in 1..Len(statsReqs), p \in StatsPayloads \cup {NoStats} :
       (timers = EmptyBag /\ statsResponse(j, p)) => liveStats' = liveStats]_vars

\* C14: at most one interval is live, and it is the one statsIntervalRef
\* names (none when statsIntervalRef is null); a start that succeeds leaves
\* exactly one, polling the session of that start.
C14_OneTimer ==
  /\ BagCardinality(timers) <= 1
  /\ timers = IF statsIntervalRef = Null THEN EmptyBag ELSE SetToBag({statsIntervalRef})

\* a second recording, after a stop that delivered its analysis: one
\* interval polls
C14_Witness ==
  /\ Mode = "Recording"
  /\ speechAnalysis # NoAnalysis
  /\ statsIntervalRef # Null
  /\ BagCardinality(timers) = 1

\* C15: a successful stats response sets exactly the metrics it names and
\* leaves every other metric at its prior value.
C15_MergeKeepsAbsentMetrics ==
  [][\A j \in 1..Len(statsReqs), p \in PollPayloads :
       statsResponse(j, p) =>
          \A m \in Metrics :
             liveStats'[m] = IF m \in DOMAIN p THEN p[m] ELSE liveStats[m]]_vars

\* three responses merged: volume from one, fluency and clarity from another
C15_Witness ==
  liveStats = [ZeroStats EXCEPT !["fluency"] = 75, !["clarity"] = 60, !["volume"] = 50]

\* what holds while a start has not settled: it holds a session id from the
\* audio initialisation on, the audio context is open and the recorder
\* exists when the backend start request is out, and until the request has
\* succeeded no recognition runs, the recorder does not record, the mode is
\* not Recording and no interval polls
StartingInOrder ==
  \A i \in 1..Len(pending) :
     pending[i].op = "start" =>
        /\ pending[i].pc \in {"audio", "startreq"} => pending[i].cur # Null
        /\ pending[i].pc = "startreq" =>
              (audioContextRef = "open" /\ mediaRecorderRef # NoRecorder)
        /\ \A n \in 1..MaxRecogs : recog[n].status # "active"
        /\ mediaRecorderRef.state # "recording"
        /\ ~isRecording
        /\ timers = EmptyBag

\* C16: a start proceeds in the order session, audio initialisation,
\* backend start request, recognition, chunk capture, Recording with the
\* poller: StartingInOrder holds throughout; if recognition.start() throws,
\* the recorder is not started, the mode is not Recording and no interval
\* is set; if the recorder's start() throws, recognition had been started
\* and the mode is not Recording and no interval is set; a start that
\* succeeds has started recognition and the recorder, is Recording and
\* has set the one interval, for the session of the start.
C16_StartOrder ==
  [][/\ StartingInOrder'
     /\ \A i \in 1..Len(pending) :
          /\ startResponse(i, "recognitionThrows") =>
                /\ recog'[recognitionRef'].status = "failed"
                /\ \A n \in 1..MaxRecogs : recog'[n].status # "active"
                /\ mediaRecorderRef'.state # "recording"
                /\ ~isRecording' /\ timers' = EmptyBag
          /\ startResponse(i, "recorderThrows") =>
                /\ recog'[recognitionRef'].status = "stopping"
                /\ mediaRecorderRef'.state # "recording"
                /\ ~isRecording' /\ timers' = EmptyBag
          /\ startResponse(i, "ok") =>
                /\ recog'[recognitionRef'].status = "active"
                /\ mediaRecorderRef'.state = "recording"
                /\ isRecording'
                /\ timers' = SetToBag({pending[i].cur})]_vars

\* a start has run through all its steps
C16_Witness ==
  /\ Mode = "Recording"
  /\ sessionId # Null /\ sessionId \in sessions
  /\ audioContextRef = "open"
  /\ recognitionRef # Null /\ recog[recognitionRef].status = "active"
  /\ mediaRecorderRef.state = "recording"
  /\ timers = SetToBag({sessionId})
  /\ pending = << >>

StopRequests == {i \in 1..Len(pending) : pending[i].pc = "stopreq"}

\* C17: a stop proceeds in the order poller, recognition, audio capture,
\* backend stop request, response, Idle: the step that issues the request
\* is taken from Recording and has cancelled the poller and stopped
\* recognition and audio capture; while the request is in flight the mode is
\* Stopping with all of them stopped; and a mode that was Stopping is Idle
\* only by the step in which the response arrives.
C17_StopOrder ==
  [][/\ (~StopInFlight /\ StopInFlight') => Mode = "Recording"
     /\ StopInFlight' =>
          /\ Mode' = "Stopping"
          /\ ~isRecording'
          /\ statsIntervalRef' = Null /\ timers' = EmptyBag
          /\ NoCapture'
     /\ (StopInFlight /\ Mode' = "Idle") =>
          \E i \in StopRequests, o \in StopOutcomes, a \in Analyses \cup {NoAnalysis} :
             stopResponse(i, o, a)]_vars

\* the stop request is out: everything is stopped, the mode is Stopping
C17_Witness ==
  /\ StopInFlight
  /\ Mode = "Stopping"
  /\ timers = EmptyBag
  /\ NoCapture
  /\ \E n \in 1..MaxRecogs : recog[n].status = "stopping"
  /\ sessionId # Null

\* C18: a stop() called while a stop request is in flight changes nothing;
\* at most one stop request is in flight, a request is issued only from a
\* state that is recording with none in flight, and no request appears when
\* the one in flight settles.
C18_SecondStopIsNoop ==
  [][/\ (StopInFlight /\ stopRecording) => UNCHANGED ctlVars
     /\ Cardinality(StopRequests') <= 1
     /\ (StopRequests' # {} /\ ~StopInFlight) => isRecording
     /\ \A i \in StopRequests, o \in StopOutcomes, a \in Analyses \cup {NoAnalysis} :
          stopResponse(i, o, a) => StopRequests' = {}]_vars

\* a second stop() was called while the stop request of the toggle was out
C18_Witness ==
  /\ dropped = "restop"
  /\ Cardinality(StopRequests) = 1
  /\ Mode = "Stopping"
  /\ textPosts = << >>

\* C19 (as claimed): when the recognition that recognitionRef names ends
\* while the mode is Recording, and the mode is still Recording when the
\* restart delay has passed, the recognition is started again.
C19_RestartWhileRecording ==
  [][\A n \in 1..MaxRecogs :
       (Mode = "Recording" /\ recognitionRef = n /\ recog[n].status = "active"
          /\ onend(n) /\ Mode' = "Recording") =>
             recog'[n].status = "active"]_vars

\* C20: recognition is not restarted once the mode has left Recording: an
\* end event delivered in a mode other than Recording (after a stop, a start
\* rollback, a clear or a logout) leaves the recognition not running, and a
\* recognition that is not running becomes running only by a start that
\* succeeds.
C20_NoRestartOutsideRecording ==
  [][\A n \in 1..MaxRecogs :
       /\ (Mode # "Recording" /\ onend(n)) => recog'[n].status # "active"
       /\ (recog[n].status # "active" /\ recog'[n].status = "active") =>
             \E i \in 1..Len(pending) : startResponse(i, "ok")]_vars

\* the recognition that a rolled-back start had started has ended in Idle and
\* has not been started again; recognitionRef still names it
C20_Witness ==
  /\ Mode = "Idle"
  /\ error = "Failed to start recording"
  /\ recognitionRef # Null
  /\ recog[recognitionRef].status = "ended"

\* C21 (as claimed): a teardown while the mode is Recording, by the unmount
\* of the widget or by logout, does what stop() does: the poll timer is
\* cleared, recognition and the recorder are stopped, and the backend stop
\* request for the session is issued.
C21_TeardownStopsSession ==
  [][(Mode = "Recording" /\ sessionId # Null
        /\ (widget' # widget \/ (widget = "mounted" /\ handleLogout))) =>
       /\ timers' = EmptyBag
       /\ \A n \in 1..MaxRecogs : recog'[n].status # "active"
       /\ mediaRecorderRef'.state # "recording"
       /\ \E i \in 1..Len(pending') :
             pending'[i].pc = "stopreq" /\ pending'[i].sid = sessionId]_vars

C22_WitnessStarting ==
  /\ widget = "unmounted"
  /\ mediaRecorderRef.state = "inactive"
  /\ mediaRecorderRef.sid # Null
  /\ audioContextRef = "closed"
  /\ StartInFlight

\* C23: when the microphone is denied during Starting the start ends there:
\* the task is over without a backend start request, the mode is Idle, the
\* error is shown, no recognition runs, no recorder records, no stream was
\* acquired and no timer set, and the session id and the sessions of the
\* backend are as they were.
C23_MicDeniedIsFatal ==
  [][\A i \in 1..Len(pending) :
       initAudioProcessing(i, FALSE) =>
         /\ Mode = "Starting"
         /\ pending' = Remove(pending, i)
         /\ ~StartInFlight'
         /\ Mode' = "Idle"
         /\ error' = "Failed to start recording"
         /\ \A n \in 1..MaxRecogs : recog'[n].status # "active"
         /\ mediaRecorderRef'.state # "recording"
         /\ UNCHANGED <<streams, timers, sessionId, sessions>>]_vars

\* the microphone was denied to a start that had its session: Idle with the
\* error, the session still there, and nothing acquired
C23_Witness ==
  /\ Mode = "Idle"
  /\ error = "Failed to start recording"
  /\ sessionId # Null
  /\ sessionId \in sessions
  /\ streams = 0
  /\ recognitionRef = Null
  /\ mediaRecorderRef = NoRecorder
  /\ pending = << >>

\* C24: a recognition error other than not-allowed that arrives while the
\* mode is Recording leaves the mode Recording and the poll timer, the
\* recognition, the recorder and the audio context as they are; no-speech
\* leaves the error shown as it is, network and any other kind set it.
C24_RecognitionErrorKeepsRecording ==
  [][\A n \in 1..MaxRecogs, kind \in ErrorKinds \ {"not-allowed"} :
       (Mode = "Recording" /\ onerror(n, kind)) =>
         /\ Mode' = "Recording"
         /\ UNCHANGED <<isRecording, pollVars, captureVars, sessionId>>
         /\ kind = "no-speech" => error' = error
         /\ kind # "no-speech" => (error' = ErrorText(kind) /\ error' # "")]_vars

\* a network error arrived while Recording: the error is shown and the
\* timer, the recognition and the recorder are running
C24_Witness ==
  /\ Mode = "Recording"
  /\ error = ErrorText("network")
  /\ statsIntervalRef # Null
  /\ timers = SetToBag({statsIntervalRef})
  /\ recognitionRef # Null
  /\ recog[recognitionRef].status = "active"
  /\ mediaRecorderRef.state = "recording"

\* C25 (as claimed): a not-allowed recognition error that arrives while the
\* mode is Recording shows the error and stops the recording: the mode
\* leaves Recording, the poll timer is cleared and recognition and the
\* recorder are stopped.
C25_PermissionErrorStopsRecording ==
  [][\A n \in 1..MaxRecogs :
       (Mode = "Recording" /\ onerror(n, "not-allowed")) =>
         /\ error' = ErrorText("not-allowed")
         /\ Mode' # "Recording"
         /\ timers' = EmptyBag
         /\ \A k \in 1..MaxRecogs : recog'[k].status # "active"
         /\ mediaRecorderRef'.state # "recording"]_vars

\* C26 (as claimed): a recognition result or an audio chunk delivered while
\* the mode is not Recording (Idle, Starting or Stopping) changes neither
\* finalTranscript nor transcript and posts nothing for analysis.
C26_EventsOutsideRecordingDropped ==
  [][(Mode # "Recording"
        /\ (ondataavailable \/ \E n \in 1..MaxRecogs, ev \in Events : onresult(n, ev))) =>
       UNCHANGED <<finalTranscript, transcript, textPosts>>]_vars

\* C27 (as claimed): a post of an audio chunk or of a text segment that
\* fails while the mode is Recording leaves the mode, the session id, the
\* metrics and the error shown as they are, and the chunks captured
\* afterwards are still posted: every chunk the recorder delivers while
\* Recording with a session adds a post for the session.
C27_PostFailureKeepsSession ==
  [][/\ \A k \in 1..Len(textPosts) :
          (Mode = "Recording" /\ postResponse(k, NoStats)) =>
             (Mode' = "Recording" /\ UNCHANGED <<sessionId, liveStats, error>>)
     /\ (Mode = "Recording" /\ sessionId # Null /\ ondataavailable) =>
          /\ Len(textPosts') = Len(textPosts) + 1
          /\ textPosts'[Len(textPosts')].sid = sessionId]_vars

\* C28 (as claimed): at most one microphone stream is live and at most one
\* recognition is running at any time, and a stream is acquired only when no
\* stream acquired before is still live.
C28_OneCaptureAtATime ==
  /\ streams <= 1
  /\ Cardinality({n \in 1..MaxRecogs : recog[n].status = "active"}) <= 1

\* C29: when the create-session request fails or its response lacks
\* success, the start ends there: no session id is stored, the task is over
\* without an audio initialisation and without a backend start request (no
\* stream, no audio context, no session in the backend), the mode is Idle
\* and the error is shown.
C29_CreateFailureIsFatal ==
  [][\A i \in 1..Len(pending) :
       createVoiceSession(i, FALSE) =>
         /\ Mode = "Starting"
         /\ sessionId = Null /\ sessionId' = Null
         /\ pending' = Remove(pending, i)
         /\ ~StartInFlight'
         /\ Mode' = "Idle"
         /\ error' = "Failed to start recording"
         /\ audioContextRef' = NoContext
         /\ mediaRecorderRef'.state # "recording"
         /\ UNCHANGED <<streams, timers, sessions, nextId>>]_vars

\* the first create request failed: Idle with the error, no session id and
\* no session in the backend, nothing acquired
C29_Witness ==
  /\ Mode = "Idle"
  /\ error = "Failed to start recording"
  /\ sessionId = Null
  /\ sessions = {}
  /\ nextId = 1
  /\ streams = 0
  /\ mediaRecorderRef = NoRecorder
  /\ pending = << >>

\* C30 (as claimed): once a clear() or a logout has completed in Idle (no
\* session id, no handler in flight, no final analysis, every metric 0,
\* finalTranscript empty), the final analysis stays absent, the metrics stay 0 and
\* finalTranscript stays empty until the next start(), whatever response or
\* recognition event arrives.
C30_ClearedStaysCleared ==
  [][(/\ Mode = "Idle"
      /\ sessionId = Null /\ nextId > 1
      /\ pending = << >> /\ pending' = << >>
      /\ speechAnalysis = NoAnalysis
      /\ liveStats = ZeroStats
      /\ finalTranscript = << >>) =>
        /\ speechAnalysis' = NoAnalysis
        /\ liveStats' = ZeroStats
        /\ finalTranscript' = << >>]_vars

\* C31 (as claimed): a start that succeeds and a clear that completes reset
\* the last forwarded segment, and the first non-empty final segment
\* delivered after the reset, while Recording with a session, is forwarded
\* in a text-analysis request whatever was forwarded before the reset.
C31_DedupResetByStartAndClear ==
  [][/\ (\E i \in 1..Len(pending) : startResponse(i, "ok")) =>
          lastProcessedText' = << >>
     /\ \A i \in 1..Len(pending), ok \in BOOLEAN :
          (pending[i].op = "clear" /\ deleteResponse(i, ok)) =>
             lastProcessedText' = << >>
     /\ \A n \in 1..MaxRecogs, ev \in Events :
          LET seg == trim(NewFinalTextOf(ev))
          IN (/\ Mode = "Recording" /\ sessionId # Null
              /\ lastProcessedText = << >> /\ seg # << >>
              /\ onresult(n, ev)) =>
                /\ Len(textPosts') = Len(textPosts) + 1
                /\ textPosts'[Len(textPosts')].text_chunk = seg]_vars

\* C32 (as claimed): a recognition event with final results that arrives
\* while Recording with a session appends them to finalTranscript in the
\* order of the results, and every final result that is not empty and
\* differs from the segment forwarded last before it is forwarded in a
\* text-analysis request of its own for the session.
C32_EveryFinalSegmentForwarded ==
  [][\A n \in 1..MaxRecogs, ev \in Events :
       (Mode = "Recording" /\ sessionId # Null /\ FinalOf(ev) # << >>
          /\ onresult(n, ev)) =>
         LET segs == SelectSeq(ev, LAMBDA r : r.f /\ trim(r.t) # << >>)
             keep == {k \in 1..Len(segs) :
                        trim(segs[k].t) #
                          (IF k = 1 THEN lastProcessedText ELSE trim(segs[k - 1].t))}
         IN /\ finalTranscript' = finalTranscript \o FinalOf(ev)
            /\ Len(textPosts') = Len(textPosts) + Cardinality(keep)
            /\ \A k \in keep :
                 \E j \in (Len(textPosts) + 1)..Len(textPosts') :
                    /\ textPosts'[j].sid = sessionId
                    /\ textPosts'[j].text_chunk = trim(segs[k].t)]_vars

\* C33 (as claimed): whenever isRecording is set a session id is held,
\* whatever clear or logout was invoked while a start was in flight.
C33_RecordingHasSession == isRecording => sessionId # Null

\* C34 (as claimed): in every state whose mode is Recording a stop() passes
\* the guard of stopRecording, so that the stop sequence runs and the mode
\* becomes Idle when the stop request has settled; in no Recording state is
\* stop() a call that returns at once.
C34_StopAcceptedWhenRecording ==
  [](Mode = "Recording" => (StopGuard /\ ~isProcessingAudio))

\* C35 (as claimed): when a logout that was invoked while isRecording was set
\* completes (at once when there is no session to delete, or when its
\* DELETE has settled, with success or not), isRecording is false, no poll
\* timer is live, the user is unset, transcript and finalTranscript are
\* empty, every metric is 0, and there is no final analysis and no session id.
C35_LogoutWhileRecordingResets ==
  [][(\/ \E i \in 1..Len(pending), ok \in BOOLEAN :
           pending[i].op = "logout" /\ pending[i].rec /\ deleteResponse(i, ok)
      \/ (isRecording /\ handleLogout /\ user' = NoUser)) =>
        /\ isRecording' = FALSE
        /\ timers' = EmptyBag
        /\ user' = NoUser
        /\ transcript' = << >>
        /\ finalTranscript' = << >>
        /\ liveStats' = ZeroStats
        /\ speechAnalysis' = NoAnalysis
        /\ sessionId' = Null]_vars

\* C36: a stop leaves the session id as it is, both when it is called and
\* when its request settles with success or failure; a start called with a
\* session id goes to the audio initialisation with that id and asks for no
\* new session; and the session id changes only from none to the id of a
\* create that succeeds, and from an id to none when the DELETE of a clear
\* or a logout settles.
C36_SessionIdSurvivesStop ==
  [][/\ stopRecording => sessionId' = sessionId
     /\ \A i \in 1..Len(pending), o \in StopOutcomes, a \in Analyses \cup {NoAnalysis} :
          stopResponse(i, o, a) => sessionId' = sessionId
     /\ (sessionId # Null /\ StartGuard /\ startRecording) =>
          /\ Len(pending') = Len(pending) + 1
          /\ pending'[Len(pending')].op = "start"
          /\ pending'[Len(pending')].pc = "audio"
          /\ pending'[Len(pending')].cur = sessionId
          /\ UNCHANGED <<sessionId, sessions, nextId>>
     /\ \A i \in 1..Len(pending), o \in StartOutcomes :
          (startResponse(i, o) /\ sessionId = pending[i].sid /\ sessionId # Null) =>
             (pending[i].cur = sessionId /\ UNCHANGED <<sessionId, sessions, nextId>>)
     /\ sessionId' # sessionId =>
          \/ /\ sessionId = Null
             /\ sessionId' = nextId
             /\ \E i \in 1..Len(pending) : createVoiceSession(i, TRUE)
          \/ /\ sessionId' = Null
             /\ \E i \in 1..Len(pending), ok \in BOOLEAN :
                   pending[i].op \in {"clear", "logout"} /\ deleteResponse(i, ok)]_vars

\* a start after a stop that succeeded has reached its backend start request
\* with the one session that was ever created
C36_Witness ==
  /\ speechAnalysis # NoAnalysis
  /\ nextId = 2
  /\ sessionId = 1
  /\ Len(pending) = 1
  /\ pending[1].op = "start"
  /\ pending[1].pc = "startreq"
  /\ pending[1].sid = 1
  /\ pending[1].cur = 1
  /\ streams = 2

\* C37: a login sets the user only when a password is stored for the
\* submitted email and equals the submitted one; a signup for a stored email
\* is rejected and the stored password stays; a rejected login or signup,
\* one with an empty email or password included, leaves the user unset and
\* the stored users as they are and shows an error; and the stored users
\* change only by the signup of an email that was not stored.
C37_AuthOverStoredUsers ==
  [][\A e \in Emails, p \in Passwords :
       handleAuth(e, p) =>
         /\ (user' # NoUser /\ authMode = "login") =>
               /\ e # "" /\ p # ""
               /\ storedUsers[e] # NoPw /\ storedUsers[e] = p
               /\ user' = e
               /\ storedUsers' = storedUsers
         /\ (authMode = "signup" /\ e # "" /\ p # "" /\ storedUsers[e] # NoPw) =>
               /\ user' = NoUser
               /\ storedUsers' = storedUsers
               /\ error' = "User exists. Please login."
         /\ (e = "" \/ p = "") => (user' = NoUser /\ storedUsers' = storedUsers)
         /\ user' = NoUser => (storedUsers' = storedUsers /\ error' # "")
         /\ storedUsers' # storedUsers =>
               /\ authMode = "signup" /\ e # "" /\ p # ""
               /\ storedUsers[e] = NoPw
               /\ storedUsers' = [storedUsers EXCEPT ![e] = p]
               /\ user' = e]_vars

\* b@x signed up with q and logged out; a second signup for b@x was
\* rejected and the stored password is still q
C37_Witness ==
  /\ user = NoUser
  /\ authMode = "signup"
  /\ error = "User exists. Please login."
  /\ storedUsers["b@x"] = "q"
  /\ storedUsers[ReturningUser] = ReturningPassword

====
